---- MODULE Spec2Model ----
(***************************************************************************)
(* A model of tehuti's results cache (src/tehuti.py): the repository-state *)
(* identifier (sha, working_tree_id, describe_working_tree) and the        *)
(* Results store (load, run, save, summary, compare) with the command line *)
(* entry point main; and the method property of the visualiser Vis        *)
(* (src/tehuti-vis.py).                                                    *)
(*                                                                         *)
(* Strings the code takes apart are sequences of tokens: the identifier    *)
(* "<hash>-dirty" is <<hash, "-dirty">>, so that endswith('-dirty') is a   *)
(* test on the last token.  A value stored in a record is tagged with its  *)
(* Python type: "str" (the name entry), "unicode" (a string that json.load *)
(* has read), "num" (a scalar outcome, held as the one element of v) or    *)
(* "list" (a list outcome, held in v).  Numbers are naturals; a decimal    *)
(* outcome such as 0.4 is held in hundredths.  Strings are ASCII.          *)
(***************************************************************************)
EXTENDS Integers, Sequences, FiniteSets, TLC

VARIABLES git, results, disk, call, nops, vis

vars == <<git, results, disk, call, nops, vis>>

----------------------------------------------------------------------------
(* Bounds of the model *)

\* number of calls into the program in one behaviour
MaxOps == 2

----------------------------------------------------------------------------
(* Values *)

None == "None"
NoId == << >>

Commits == {"c1", "c2"}
MetricIds == {"m1", "m2"}
\* an identifier that no supplied metric has
OtherId == "m3"
\* names handed to git: HEAD, the commits themselves, and a name git cannot resolve
RefNames == {"HEAD", "nosuch"} \cup Commits

Num(n) == [tag |-> "num", s |-> << >>, v |-> <<n>>]
List(l) == [tag |-> "list", s |-> << >>, v |-> l]
Str(s) == [tag |-> "str", s |-> s, v |-> << >>]
\* what a metric's run() does: return an outcome, or raise
Raises == [tag |-> "raise", s |-> << >>, v |-> << >>]

\* outcomes the metrics of a run return
RunOutcomes == {Num(10), List(<<10, 20, 5>>)}

\* Python's truth value of an optional string (None and '' are false)
Truthy(x) == x # None /\ x # ""

\* d[k] = v on a dict
Put(d, k, v) == [x \in DOMAIN d \cup {k} |-> IF x = k THEN v ELSE d[x]]

EmptyDict == [x \in {} |-> Str(<< >>)]
EmptyStore == [x \in {} |-> EmptyDict]

\* the file of the store: absent, or holding a JSON object of records, or
\* holding something else (another JSON value, or text that is not JSON)
NoFile == [exists |-> FALSE, json |-> "none", doc |-> EmptyStore]
File(doc) == [exists |-> TRUE, json |-> "object", doc |-> doc]
OtherFile(kind) == [exists |-> TRUE, json |-> kind, doc |-> EmptyStore]

\* the result of a call that may raise
Ok(v) == [exc |-> "none", val |-> v]
Raise(e) == [exc |-> e, val |-> NoId]

----------------------------------------------------------------------------
(* The version-control tooling, as the code invokes it.  git.vcs is "ok"   *)
(* in a checkout with a tag, "notags" in a checkout no tag describes,      *)
(* "norepo" where git exits non-zero (check_output raises                  *)
(* CalledProcessError) and "missing" where the git executable cannot be    *)
(* started (check_output raises OSError).                                  *)

\* subprocess.check_output(['git', ...]): the failure it raises, if any
check_output_exc(g) ==
    CASE g.vcs = "missing" -> "OSError"
      [] g.vcs = "norepo" -> "CalledProcessError"
      [] OTHER -> "none"

\* sha(name): git log -1 --format=%H name
sha(g, name) ==
    IF check_output_exc(g) # "none" THEN Raise(check_output_exc(g))
    ELSE IF name = "HEAD" THEN Ok(<<g.head>>)
    ELSE IF name \in Commits THEN Ok(<<name>>)
    ELSE Raise("CalledProcessError")

\* the lines of git status --porcelain with untracked files shown or not
git_status_porcelain(g, untracked_shown) ==
    (IF g.modified THEN <<" M tracked">> ELSE << >>)
    \o (IF untracked_shown /\ g.untracked THEN <<"?? untracked">> ELSE << >>)

\* the except clause of working_tree_id: which failures become 'unknown'
caught_by_working_tree_id(exc) == exc = "CalledProcessError"

working_tree_id(g) ==
    LET id == sha(g, "HEAD")
        status == git_status_porcelain(g, FALSE)
        body == IF id.exc # "none" THEN id
                ELSE IF check_output_exc(g) # "none" THEN Raise(check_output_exc(g))
                ELSE IF status # << >> THEN Ok(id.val \o <<"-dirty">>)
                ELSE id
    IN  IF body.exc # "none" /\ caught_by_working_tree_id(body.exc)
        THEN Ok(<<"unknown">>)
        ELSE body

\* git describe --abbrev=40 --dirty: fails outside a checkout and where no
\* tag can describe HEAD; nothing catches the failure
describe_working_tree(g) ==
    IF check_output_exc(g) # "none" THEN Raise(check_output_exc(g))
    ELSE IF g.vcs = "notags" THEN Raise("CalledProcessError")
    ELSE Ok(<<"v1-g", g.head>> \o (IF g.modified THEN <<"-dirty">> ELSE << >>))

\* str.endswith
endswith(s, suffix) == Len(s) > 0 /\ s[Len(s)] = suffix

----------------------------------------------------------------------------
(* Results.run *)

\* RunDecision without its test of the dirty marker
RunDecision_NoDirtyTest(force, code_id, store) ==
    force \/ code_id \notin DOMAIN store

\* RunDecision with the test of the store inverted: a cached identifier is re-run
RunDecision_CachedRerun(force, code_id, store) ==
    force \/ code_id \in DOMAIN store \/ endswith(code_id, "-dirty")

\* the three tests of run that set its local flag `run`
RunDecision(force, code_id, store) ==
    LET run0 == FALSE
        run1 == IF force THEN TRUE ELSE run0
        run2 == IF ~run1 /\ code_id \notin DOMAIN store THEN TRUE ELSE run1
        run3 == IF endswith(code_id, "-dirty") THEN TRUE ELSE run2
    IN  run3

\* FreshRecord that updates the identifier's previous record instead
FreshRecord_Merging(store, code_id, name) ==
    Put(IF code_id \in DOMAIN store THEN store[code_id] ELSE EmptyDict,
        "name", Str(name))

\* the dict the loop of run fills: results = {'name': describe_working_tree()}
FreshRecord(store, code_id, name) == Put(EmptyDict, "name", Str(name))

\* the test that skips a metric
Skipped(single_id, metric_id) == Truthy(single_id) /\ metric_id # single_id

\* the loop of run over metrics, from index i on; outs[i] is what the i-th
\* metric's run() does when it is called
RECURSIVE MeasureLoop(_, _, _, _, _, _)
MeasureLoop(metrics, outs, single_id, i, rec, measured) ==
    IF i > Len(metrics) THEN [exc |-> "none", rec |-> rec, measured |-> measured]
    ELSE IF Skipped(single_id, metrics[i])
         THEN MeasureLoop(metrics, outs, single_id, i + 1, rec, measured)
    ELSE IF outs[i] = Raises
         THEN [exc |-> "MetricError", rec |-> rec,
               measured |-> Append(measured, metrics[i])]
    ELSE MeasureLoop(metrics, outs, single_id, i + 1,
                     Put(rec, metrics[i], outs[i]), Append(measured, metrics[i]))

\* StoreRecord that stores what was measured before a metric raised
StoreRecord_Partial(store, code_id, loop) == Put(store, code_id, loop.rec)

\* StoreRecord that makes the new record the whole store
StoreRecord_Alone(store, code_id, loop) ==
    IF loop.exc = "none" THEN Put(EmptyStore, code_id, loop.rec) ELSE store

\* self.results[code_id] = results, reached only when the loop ends normally
StoreRecord(store, code_id, loop) ==
    IF loop.exc = "none" THEN Put(store, code_id, loop.rec) ELSE store

\* Results.run(metrics, force, single_id) on a store, in a repository state:
\* the store afterwards, the exception raised, and what was done
run(store, g, metrics, outs, force, single_id) ==
    LET wt == working_tree_id(g)
        stop(e, id, flag) == [exc |-> e, store |-> store, code_id |-> id,
                              run |-> flag, measured |-> << >>]
    IN  IF wt.exc # "none" THEN stop(wt.exc, NoId, FALSE)
        ELSE IF ~RunDecision(force, wt.val, store) THEN stop("none", wt.val, FALSE)
        ELSE LET d == describe_working_tree(g)
             IN  IF d.exc # "none" THEN stop(d.exc, wt.val, TRUE)
                 ELSE LET loop == MeasureLoop(metrics, outs, single_id, 1,
                                              FreshRecord(store, wt.val, d.val), << >>)
                      IN  [exc |-> loop.exc,
                           store |-> StoreRecord(store, wt.val, loop),
                           code_id |-> wt.val, run |-> TRUE,
                           measured |-> loop.measured]

----------------------------------------------------------------------------
(* Results.compare *)

\* Python's == on two stored values: equal type and equal content, a str
\* and a unicode of the same ASCII text being equal
PyEq(a, b) ==
    /\ a.tag = b.tag \/ {a.tag, b.tag} \subseteq {"str", "unicode"}
    /\ a.v = b.v /\ a.s = b.s

\* min(l) of a list that is not empty
min_of(l) == CHOOSE x \in {l[i] : i \in DOMAIN l} : \A i \in DOMAIN l : x <= l[i]
\* '{:.0f}'.format(float(v2) / v1 * 100): the quotient in percent, rounded to
\* the nearest integer, a tie going to the even one; v1 > 0
Percent(v1, v2) ==
    LET q == (100 * v2) \div v1
        r == (100 * v2) % v1
    IN  IF 2 * r < v1 THEN q
        ELSE IF 2 * r > v1 THEN q + 1
        ELSE IF q % 2 = 0 THEN q ELSE q + 1

\* a line of the report: the key alone (the comparison raised after it was
\* printed), the key with "no change", or the key with "v1 -> v2 (pct%)"
Line(key, kind, v1, v2, pct) ==
    [key |-> key, kind |-> kind, v1 |-> v1, v2 |-> v2, pct |-> pct]

\* the body of the loop of compare for one key that is not skipped
CompareOne(key, a, b) ==
    IF PyEq(a, b) THEN [exc |-> "none", line |-> Line(key, "nochange", 0, 0, 0)]
    ELSE LET fail(e) == [exc |-> e, line |-> Line(key, "key", 0, 0, 0)]
         IN  IF a.tag = "list" /\ b.tag # "list" THEN fail("TypeError")
             ELSE LET v1 == IF a.tag = "list" THEN min_of(a.v) ELSE a.v[1]
                      v2 == IF a.tag = "list" THEN min_of(b.v) ELSE b.v
                  IN  IF a.tag # "list" /\ b.tag = "list" THEN fail("TypeError")
                      ELSE LET w2 == IF a.tag = "list" THEN v2 ELSE v2[1]
                           IN  IF v1 = 0 THEN fail("ZeroDivisionError")
                               ELSE [exc |-> "none",
                                     line |-> Line(key, "ratio", v1, w2, Percent(v1, w2))]

\* ComparedKeys that walks through the keys of the start record
ComparedKeys_StartOnly(start_results, end_results) == DOMAIN start_results

\* the keys compare walks through: start_results.viewkeys() & end_results.viewkeys()
ComparedKeys(start_results, end_results) ==
    DOMAIN start_results \cap DOMAIN end_results

\* the test of compare that skips a key
CompareSkipped(single_id, key) ==
    key = "name" \/ (Truthy(single_id) /\ key # single_id)

\* the loop of compare over the keys in the order the set yields them
RECURSIVE CompareLoop(_, _, _, _, _, _)
CompareLoop(order, i, start_results, end_results, single_id, out) ==
    IF i > Len(order) THEN [exc |-> "none", out |-> out]
    ELSE IF CompareSkipped(single_id, order[i])
         THEN CompareLoop(order, i + 1, start_results, end_results, single_id, out)
    ELSE IF order[i] \notin DOMAIN start_results \/ order[i] \notin DOMAIN end_results
         THEN [exc |-> "KeyError", out |-> Append(out, Line(order[i], "key", 0, 0, 0))]
    ELSE LET one == CompareOne(order[i], start_results[order[i]], end_results[order[i]])
         IN  IF one.exc # "none"
             THEN [exc |-> one.exc, out |-> Append(out, one.line)]
             ELSE CompareLoop(order, i + 1, start_results, end_results, single_id,
                              Append(out, one.line))

\* the orders in which a set can yield the keys S
Orders(S) == {o \in [1..Cardinality(S) -> S] : \A i, j \in DOMAIN o : o[i] = o[j] => i = j}

\* the identifiers compare resolves: sha(start), then working_tree_id() or sha(end)
CompareIds(g, start, end) ==
    LET s == sha(g, start)
        e == IF end = None THEN working_tree_id(g) ELSE sha(g, end)
    IN  IF s.exc # "none" THEN [exc |-> s.exc, start_sha |-> NoId, end_sha |-> NoId]
        ELSE IF e.exc # "none" THEN [exc |-> e.exc, start_sha |-> s.val, end_sha |-> NoId]
        ELSE [exc |-> "none", start_sha |-> s.val, end_sha |-> e.val]

\* record_of that yields an empty record for an identifier without one
record_of_Defaulting(store, id) ==
    [exc |-> "none", val |-> IF id \in DOMAIN store THEN store[id] ELSE EmptyDict]

\* self.results[id] as compare and summary read it: the record, or KeyError
record_of(store, id) ==
    IF id \in DOMAIN store THEN [exc |-> "none", val |-> store[id]]
    ELSE [exc |-> "KeyError", val |-> EmptyDict]

\* Results.compare(start, end, single_id); order is the order in which the
\* key set is iterated
compare(store, g, start, end, single_id, order) ==
    LET ids == CompareIds(g, start, end)
        stop(e) == [exc |-> e, out |-> << >>, start_sha |-> ids.start_sha,
                    end_sha |-> ids.end_sha]
    IN  IF ids.exc # "none" THEN stop(ids.exc)
        ELSE LET start_results == record_of(store, ids.start_sha)
                 end_results == record_of(store, ids.end_sha)
             IN  IF start_results.exc # "none" THEN stop(start_results.exc)
                 ELSE IF end_results.exc # "none" THEN stop(end_results.exc)
                 ELSE LET loop == CompareLoop(order, 1, start_results.val,
                                              end_results.val, single_id, << >>)
                      IN  [exc |-> loop.exc, out |-> loop.out,
                           start_sha |-> ids.start_sha, end_sha |-> ids.end_sha]

----------------------------------------------------------------------------
(* Results.summary *)

\* the test of summary that skips a key
SummarySkipped(single_id, key) == Truthy(single_id) /\ key # single_id

\* the line summary prints for a key: the value, a list reduced to its minimum
SummaryLine(key, value) ==
    IF value.tag \in {"str", "unicode"} THEN Line(key, "str", 0, 0, 0)
    ELSE Line(key, "value", IF value.tag = "list" THEN min_of(value.v) ELSE value.v[1], 0, 0)

\* the loop of summary over the items of the record in the order the dict
\* yields them
RECURSIVE SummaryLoop(_, _, _, _, _)
SummaryLoop(order, i, rec, single_id, out) ==
    IF i > Len(order) THEN out
    ELSE IF SummarySkipped(single_id, order[i])
         THEN SummaryLoop(order, i + 1, rec, single_id, out)
    ELSE SummaryLoop(order, i + 1, rec, single_id,
                     Append(out, SummaryLine(order[i], rec[order[i]])))

\* Results.summary(single_id)
summary(store, g, single_id, order) ==
    LET wt == working_tree_id(g)
    IN  IF wt.exc # "none" THEN [exc |-> wt.exc, out |-> << >>, code_id |-> NoId]
        ELSE LET rec == record_of(store, wt.val)
             IN  IF rec.exc # "none"
                 THEN [exc |-> rec.exc, out |-> << >>, code_id |-> wt.val]
                 ELSE [exc |-> "none", code_id |-> wt.val,
                       out |-> SummaryLoop(order, 1, rec.val, single_id, << >>)]

----------------------------------------------------------------------------
(* Results.load, Results.save and main *)

\* json_dump_value that writes a list as the number summary and compare
\* reduce it to
json_dump_value_Min(x) ==
    [j |-> CASE x.tag \in {"num", "list"} -> "number" [] OTHER -> "string",
     s |-> x.s,
     v |-> IF x.tag = "list" /\ x.v # << >> THEN <<min_of(x.v)>> ELSE x.v]

\* json.dump of a stored value: a number, an array of numbers or a string
json_dump_value(x) ==
    [j |-> CASE x.tag = "num" -> "number" [] x.tag = "list" -> "array" [] OTHER -> "string",
     s |-> x.s, v |-> x.v]
\* json.load of a JSON value: a number, a list, or a unicode string
json_load_value(y) ==
    [tag |-> CASE y.j = "number" -> "num" [] y.j = "array" -> "list" [] OTHER -> "unicode",
     s |-> y.s, v |-> y.v]

\* json.dump(self.results, f): an object of objects
json_dump(store) ==
    [id \in DOMAIN store |-> [k \in DOMAIN store[id] |-> json_dump_value(store[id][k])]]
json_load(doc) ==
    [id \in DOMAIN doc |-> [k \in DOMAIN doc[id] |-> json_load_value(doc[id][k])]]

\* open(path, 'rb') and json.load(f): the value read and its Python type,
\* IOError without a file, ValueError when the text is not JSON; a value that
\* is not a dict is held by its type alone
read_json(d) ==
    CASE ~d.exists -> [exc |-> "IOError", val |-> EmptyStore, type |-> "none"]
      [] d.json = "invalid" -> [exc |-> "ValueError", val |-> EmptyStore, type |-> "none"]
      [] d.json = "array" -> [exc |-> "none", val |-> EmptyStore, type |-> "list"]
      [] d.json = "number" -> [exc |-> "none", val |-> EmptyStore, type |-> "int"]
      [] OTHER -> [exc |-> "none", val |-> json_load(d.doc), type |-> "dict"]

\* a load whose except clause catches nothing
caught_by_load_Nothing(e) == FALSE

\* the except clause of load
caught_by_load(e) == e = "IOError"

\* Results.load(name): Results(r) of the value read, Results({}) when the
\* read raised IOError
load(d) ==
    LET r == read_json(d)
    IN  IF r.exc # "none" /\ caught_by_load(r.exc)
        THEN [exc |-> "none", val |-> EmptyStore, type |-> "dict"]
        ELSE r

\* Results.save(name): the file afterwards
save(store) == File(json_dump(store))

\* main without its check on single_id
UnknownMetric_Unchecked(metrics, single_id) == FALSE

\* the check of main on single_id
UnknownMetric(metrics, single_id) ==
    single_id # None /\ single_id \notin {metrics[i] : i \in DOMAIN metrics}

\* main_run that saves whether or not run raised
main_run_SaveAlways(d, g, metrics, outs, target_commit, force, single_id) ==
    LET loaded == load(d)
    IN  IF loaded.exc # "none" \/ target_commit # None
        THEN [exc |-> loaded.exc, store |-> loaded.val, disk |-> d, code_id |-> NoId,
              run |-> FALSE, measured |-> << >>]
        ELSE LET r == run(loaded.val, g, metrics, outs, force, single_id)
             IN  [exc |-> r.exc, store |-> r.store, disk |-> save(r.store),
                  code_id |-> r.code_id, run |-> r.run, measured |-> r.measured]

\* main up to and including results.save: load, then run and save when
\* target_commit is None
main_run(d, g, metrics, outs, target_commit, force, single_id) ==
    LET loaded == load(d)
    IN  IF loaded.exc # "none" \/ target_commit # None
        THEN [exc |-> loaded.exc, store |-> loaded.val, disk |-> d, code_id |-> NoId,
              run |-> FALSE, measured |-> << >>]
        ELSE LET r == run(loaded.val, g, metrics, outs, force, single_id)
             IN  [exc |-> r.exc, store |-> r.store,
                  disk |-> IF r.exc = "none" THEN save(r.store) ELSE d,
                  code_id |-> r.code_id, run |-> r.run, measured |-> r.measured]

\* the keys that the report of main iterates over, given what main_run
\* left: those of compare, or those of the record summary prints
ReportKeys(m, g, ref_commit, target_commit) ==
    IF m.exc # "none" THEN {}
    ELSE IF ref_commit # None
    THEN LET ids == CompareIds(g, ref_commit, target_commit)
         IN  IF ids.exc = "none" /\ {ids.start_sha, ids.end_sha} \subseteq DOMAIN m.store
             THEN ComparedKeys(m.store[ids.start_sha], m.store[ids.end_sha])
             ELSE {}
    ELSE LET wt == working_tree_id(g)
         IN  IF wt.exc = "none" /\ wt.val \in DOMAIN m.store
             THEN DOMAIN m.store[wt.val] ELSE {}

\* main where single_id is unknown: raise ValueError('Unknown metric ...')
\* before a store is loaded; the file d and the store in memory stay
main_unknown(d, store) ==
    [exc |-> "ValueError", store |-> store, disk |-> d, code_id |-> NoId,
     run |-> FALSE, measured |-> << >>, out |-> << >>, loaded |-> FALSE]

\* main after main_run has left m: the failure of run, or results.compare
\* when ref_commit is given and results.summary when it is not
main_report(m, g, ref_commit, target_commit, single_id, order) ==
    LET stop == [exc |-> m.exc, store |-> m.store, disk |-> m.disk,
                 code_id |-> m.code_id, run |-> m.run, measured |-> m.measured,
                 out |-> << >>, loaded |-> TRUE]
    IN  IF m.exc # "none" THEN stop
        ELSE IF ref_commit # None
        THEN LET c == compare(m.store, g, ref_commit, target_commit, single_id, order)
             IN  [stop EXCEPT !.exc = c.exc, !.out = c.out]
        ELSE LET u == summary(m.store, g, single_id, order)
             IN  [stop EXCEPT !.exc = u.exc, !.out = u.out]

----------------------------------------------------------------------------
(* Vis (src/tehuti-vis.py): the visualiser and its method property.  A     *)
(* value held in _method or used as a key is a name (a str) or the state   *)
(* object that the constructor registered under a name.                    *)

\* the names under which the constructor registers a state
Registered == {"basic", "violin", "many", "setup"}
\* a name that is not registered
Unregistered == "nosuch"

Name(n) == [kind |-> "str", name |-> n]
State(n) == [kind |-> "state", name |-> n]
NoState == [kind |-> "none", name |-> None]

\* self.methods: the state objects under their names
methods == [k \in {Name(n) : n \in Registered} |-> State(k.name)]

\* Vis(results, method): _method is the name given; constructed and assigned
\* are the history of the object (the name it was constructed with, the
\* values assigned to method since), which the code does not hold
Vis(method) ==
    [_method |-> Name(method), constructed |-> method, assigned |-> << >>]
\* no visualiser has been constructed
NoVis == [_method |-> NoState, constructed |-> None, assigned |-> << >>]

\* the getter of method: self.methods[self._method]
method_get(v) ==
    IF v._method \in DOMAIN methods
    THEN [exc |-> "none", val |-> methods[v._method]]
    ELSE [exc |-> "KeyError", val |-> NoState]

\* the setter of method: self._method = self.methods[value], a KeyError
\* turned into AttributeError
method_set(v, value) ==
    IF Name(value) \in DOMAIN methods
    THEN [exc |-> "none",
          vis |-> [v EXCEPT !._method = methods[Name(value)],
                            !.assigned = Append(@, value)]]
    ELSE [exc |-> "AttributeError",
          vis |-> [v EXCEPT !.assigned = Append(@, value)]]

----------------------------------------------------------------------------
(* The state machine.  `call` is the call into the program that has just   *)
(* returned or raised, with its arguments and what it did; Return hands    *)
(* control back to the caller, and the next call or change of the working  *)
(* tree starts from there.                                                 *)

Idle == [op |-> "idle", exc |-> "none", code_id |-> NoId, run |-> FALSE,
         measured |-> << >>, force |-> FALSE, single_id |-> None,
         metrics |-> << >>, outs |-> << >>, before |-> EmptyStore,
         start |-> None, end |-> None, start_sha |-> NoId, end_sha |-> NoId,
         order |-> << >>, out |-> << >>, disk_before |-> NoFile, loaded |-> FALSE,
         type |-> "none", value |-> None, got |-> NoState,
         method_before |-> NoState]

VcsStates == {"ok", "notags", "norepo", "missing"}
InCheckout(g) == g.vcs \in {"ok", "notags"}

Init ==
    /\ git = [vcs |-> "ok", head |-> "c1", modified |-> FALSE, untracked |-> FALSE]
    /\ results = EmptyStore
    /\ disk = NoFile
    /\ call = Idle
    /\ nops = 0
    /\ vis = NoVis

\* the metrics lists handed to run: every list of metrics with distinct ids
MetricLists ==
    {l \in UNION {[1..n -> MetricIds] : n \in 0..Cardinality(MetricIds)} :
        \A i, j \in DOMAIN l : l[i] = l[j] => i = j}

\* the single_id arguments: unset, the id of a metric, an id no metric has
SingleIds == {None, "m1", OtherId}

CanCall == call.op = "idle" /\ nops < MaxOps

\* Results.run called on the store in memory, with a metrics list of lists
\* whose metrics return outcomes of outcomes or raise
RunWith(lists, outcomes) ==
    /\ CanCall
    /\ \E metrics \in lists, force \in BOOLEAN, single_id \in SingleIds :
       \E outs \in [1..Len(metrics) -> outcomes \cup {Raises}] :
          LET r == run(results, git, metrics, outs, force, single_id)
          IN  /\ results' = r.store
              /\ call' = [Idle EXCEPT !.op = "run", !.exc = r.exc,
                             !.code_id = r.code_id, !.run = r.run,
                             !.measured = r.measured, !.force = force,
                             !.single_id = single_id, !.metrics = metrics,
                             !.outs = outs, !.before = results,
                             !.disk_before = disk]
    /\ nops' = nops + 1
    /\ UNCHANGED <<git, disk, vis>>

Run == RunWith(MetricLists, RunOutcomes)

\* the call is over: control is back with the caller
Return ==
    /\ call.op # "idle"
    /\ call' = Idle
    /\ UNCHANGED <<git, results, disk, nops, vis>>

\* the working tree changes between calls
Edit == /\ call.op = "idle" /\ InCheckout(git) /\ ~git.modified
        /\ git' = [git EXCEPT !.modified = TRUE]
        /\ UNCHANGED <<results, disk, call, nops, vis>>

Commit == /\ call.op = "idle" /\ InCheckout(git)
          /\ \E c \in Commits : c # git.head /\ git' = [git EXCEPT !.head = c, !.modified = FALSE]
          /\ UNCHANGED <<results, disk, call, nops, vis>>

\* a file git does not track appears or goes
Untracked == /\ call.op = "idle" /\ InCheckout(git)
             /\ git' = [git EXCEPT !.untracked = ~git.untracked]
             /\ UNCHANGED <<results, disk, call, nops, vis>>

\* the tooling becomes unavailable or available again, tags come and go
SetVcs == /\ call.op = "idle"
          /\ \E v \in VcsStates : v # git.vcs /\ git' = [git EXCEPT !.vcs = v]
          /\ UNCHANGED <<results, disk, call, nops, vis>>

Next == Run \/ Return \/ Edit \/ Commit \/ SetVcs

Spec == Init /\ [][Next]_vars

----------------------------------------------------------------------------
(* The command line: main on the file of one metrics module, and           *)
(* Results.run called with that module's metrics on the store that the     *)
(* last call left in memory.                                               *)

\* the metrics list of the module and what its metrics return
ModuleMetrics == <<"m1", "m2">>
ModuleOutcomes == {Num(10)}

\* main(metrics_module_name, ref_commit, target_commit, force, single_id) on
\* the file of the module
Main ==
    /\ CanCall
    /\ \E ref_commit \in {None, "c1"}, target_commit \in {None, "c2"},
          force \in BOOLEAN, single_id \in SingleIds :
       \E outs \in [1..Len(ModuleMetrics) -> ModuleOutcomes \cup {Raises}] :
       \E r \in IF UnknownMetric(ModuleMetrics, single_id)
                THEN {main_unknown(disk, results)}
                ELSE UNION {
                       {main_report(m, git, ref_commit, target_commit, single_id, order) :
                           order \in Orders(ReportKeys(m, git, ref_commit, target_commit))} :
                       m \in {main_run(disk, git, ModuleMetrics, outs,
                                        target_commit, force, single_id)}} :
          /\ results' = r.store
          /\ disk' = r.disk
          /\ call' = [Idle EXCEPT !.op = "main", !.exc = r.exc,
                         !.code_id = r.code_id, !.run = r.run,
                         !.measured = r.measured, !.force = force,
                         !.single_id = single_id, !.metrics = ModuleMetrics,
                         !.outs = outs, !.before = results,
                         !.disk_before = disk, !.start = ref_commit,
                         !.end = target_commit, !.out = r.out, !.loaded = r.loaded]
    /\ nops' = nops + 1
    /\ UNCHANGED <<git, vis>>

RunModule == RunWith({ModuleMetrics}, ModuleOutcomes)

NextMain == Main \/ RunModule \/ Return \/ Edit \/ Commit \/ SetVcs

SpecMain == Init /\ [][NextMain]_vars

----------------------------------------------------------------------------
(* The identifier functions on their own, in every state of the tooling    *)
(* and of the working tree.                                                *)

\* one of sha(name), working_tree_id(), describe_working_tree() is called
Identify ==
    /\ call.op = "idle"
    /\ \/ \E name \in RefNames :
            LET r == sha(git, name)
            IN  call' = [Idle EXCEPT !.op = "sha", !.start = name,
                                    !.exc = r.exc, !.code_id = r.val]
       \/ LET r == working_tree_id(git)
          IN  call' = [Idle EXCEPT !.op = "working_tree_id",
                                  !.exc = r.exc, !.code_id = r.val]
       \/ LET r == describe_working_tree(git)
          IN  call' = [Idle EXCEPT !.op = "describe_working_tree",
                                  !.exc = r.exc, !.code_id = r.val]
    /\ UNCHANGED <<git, results, disk, nops, vis>>

\* the tracked modification is undone
Revert == /\ call.op = "idle" /\ InCheckout(git) /\ git.modified
          /\ git' = [git EXCEPT !.modified = FALSE]
          /\ UNCHANGED <<results, disk, call, nops, vis>>

NextIdentity ==
    Identify \/ Return \/ Edit \/ Revert \/ Commit \/ Untracked \/ SetVcs

SpecIdentity == Init /\ [][NextIdentity]_vars

----------------------------------------------------------------------------
(* Results.compare on the stores a process can have loaded: records of the *)
(* two commits, with scalar and list outcomes.                             *)

\* outcomes of a metric in a stored record; decimals are held in hundredths
\* (0.5, 0.4, 0.6 as 50, 40, 60)
StoredOutcomes ==
    {Num(0), Num(10), Num(15),
     List(<<10, 20, 5>>), List(<<8, 9>>), List(<<5, 7>>),
     List(<<50, 40, 60>>), List(<<30, 35>>)}

\* the records a store can hold for a commit: m1 with any outcome or
\* unmeasured, m2 with a scalar or unmeasured
StoredRecords(c) ==
    {Put(EmptyDict, "name", Str(<<"v1-g", c>>))} \cup
    {Put(Put(EmptyDict, "name", Str(<<"v1-g", c>>)), "m1", o) : o \in StoredOutcomes} \cup
    {Put(Put(Put(EmptyDict, "name", Str(<<"v1-g", c>>)), "m1", o), "m2", p) :
        o \in StoredOutcomes, p \in {Num(10), Num(15)}}

\* the stores: a record of the first commit, or one of each
StoredStores ==
    {Put(EmptyStore, <<"c1">>, r) : r \in StoredRecords("c1")} \cup
    {Put(Put(EmptyStore, <<"c1">>, r), <<"c2">>, q) :
        r \in StoredRecords("c1"), q \in StoredRecords("c2")}

InitCompare ==
    /\ git \in {[vcs |-> v, head |-> "c2", modified |-> m, untracked |-> FALSE] :
                   v \in {"ok", "norepo"}, m \in BOOLEAN}
    /\ results \in StoredStores
    /\ disk = NoFile
    /\ call = Idle
    /\ nops = 0
    /\ vis = NoVis

\* Results.compare called on the store in memory
Compare ==
    /\ call.op = "idle"
    /\ \E start \in {"c1", "c2", "nosuch"}, end \in {None, "c2"},
          single_id \in SingleIds :
          LET ids == CompareIds(git, start, end)
              keys == IF ids.exc = "none" /\ {ids.start_sha, ids.end_sha} \subseteq DOMAIN results
                      THEN ComparedKeys(results[ids.start_sha], results[ids.end_sha])
                      ELSE {}
          IN  \E order \in Orders(keys) :
                 LET r == compare(results, git, start, end, single_id, order)
                 IN  call' = [Idle EXCEPT !.op = "compare", !.exc = r.exc,
                                 !.start = start, !.end = end,
                                 !.single_id = single_id, !.order = order,
                                 !.start_sha = r.start_sha, !.end_sha = r.end_sha,
                                 !.out = r.out, !.before = results]
    /\ UNCHANGED <<git, results, disk, nops, vis>>

\* Results.summary called on the store in memory
Summary ==
    /\ call.op = "idle"
    /\ \E single_id \in SingleIds :
          LET wt == working_tree_id(git)
              keys == IF wt.exc = "none" /\ wt.val \in DOMAIN results
                      THEN DOMAIN results[wt.val] ELSE {}
          IN  \E order \in Orders(keys) :
                 LET r == summary(results, git, single_id, order)
                 IN  call' = [Idle EXCEPT !.op = "summary", !.exc = r.exc,
                                 !.code_id = r.code_id,
                                 !.single_id = single_id, !.order = order,
                                 !.out = r.out, !.before = results]
    /\ UNCHANGED <<git, results, disk, nops, vis>>

NextCompare == Compare \/ Summary \/ Return

SpecCompare == InitCompare /\ [][NextCompare]_vars

----------------------------------------------------------------------------
(* Results.save and Results.load on their own: a process holding one of    *)
(* the stores, and a file that is absent, was saved earlier, or holds      *)
(* something other than a saved store.                                     *)

\* a store saved earlier, of a working tree that was dirty then
OldStore ==
    Put(EmptyStore, <<"c1", "-dirty">>,
        Put(Put(EmptyDict, "name", Str(<<"v1-g", "c1", "-dirty">>)), "m1", List(<<8, 9>>)))

\* what a file holds that is not a JSON object: a JSON array, a JSON number,
\* text that is not JSON
OtherKinds == {"array", "number", "invalid"}

InitStore ==
    /\ git = [vcs |-> "ok", head |-> "c2", modified |-> FALSE, untracked |-> FALSE]
    /\ results \in StoredStores
    /\ disk \in {NoFile, save(OldStore)} \cup {OtherFile(k) : k \in OtherKinds}
    /\ call = Idle
    /\ nops = 0
    /\ vis = NoVis

\* Results.save(name) of the store in memory
Save ==
    /\ call.op = "idle"
    /\ disk' = save(results)
    /\ call' = [Idle EXCEPT !.op = "save", !.before = results, !.disk_before = disk]
    /\ UNCHANGED <<git, results, nops, vis>>

\* Results.load(name): the store in memory is the one loaded, unless load
\* raised
Load ==
    /\ call.op = "idle"
    /\ LET r == load(disk)
       IN  /\ results' = IF r.exc = "none" THEN r.val ELSE results
           /\ call' = [Idle EXCEPT !.op = "load", !.exc = r.exc, !.type = r.type,
                          !.before = results, !.disk_before = disk,
                          !.loaded = (r.exc = "none")]
    /\ UNCHANGED <<git, disk, nops, vis>>

NextStore == Save \/ Load \/ Return

SpecStore == InitStore /\ [][NextStore]_vars

----------------------------------------------------------------------------
(* A visualiser, constructed with a name, whose method property is         *)
(* assigned and read.                                                      *)

InitVis ==
    /\ git = [vcs |-> "ok", head |-> "c1", modified |-> FALSE, untracked |-> FALSE]
    /\ results = EmptyStore
    /\ disk = NoFile
    /\ call = Idle
    /\ nops = 0
    /\ vis \in {Vis(n) : n \in Registered \cup {Unregistered}}

\* visualiser.method = value
Assign ==
    /\ CanCall
    /\ \E value \in Registered \cup {Unregistered} :
          LET r == method_set(vis, value)
          IN  /\ vis' = r.vis
              /\ call' = [Idle EXCEPT !.op = "method_set", !.exc = r.exc,
                             !.value = value, !.method_before = vis._method]
    /\ nops' = nops + 1
    /\ UNCHANGED <<git, results, disk>>

\* visualiser.method is read
Read ==
    /\ call.op = "idle"
    /\ LET r == method_get(vis)
       IN  call' = [Idle EXCEPT !.op = "method_get", !.exc = r.exc, !.got = r.val]
    /\ UNCHANGED <<git, results, disk, nops, vis>>

NextVis == Assign \/ Read \/ Return

SpecVis == InitVis /\ [][NextVis]_vars

----------------------------------------------------------------------------
(* Properties of Results.run *)

IsRun == call.op = "run"
\* the call resolved an identifier (working_tree_id did not raise)
Resolved == call.code_id # NoId
Dirty(id) == Len(id) = 2 /\ id[2] = "-dirty"
HadRecord == call.code_id \in DOMAIN call.before
\* describe_working_tree raised in the call
DescribeFailed == call.run /\ call.exc \in {"CalledProcessError", "OSError"}
\* the indices of the supplied metrics that match single_id
Matching == {i \in DOMAIN call.metrics :
                call.single_id = None \/ call.metrics[i] = call.single_id}
\* the matching metrics that raise when run
Failing == {i \in Matching : call.outs[i] = Raises}
\* the ids of the matching metrics, in the order of the list, up to index n
RECURSIVE MatchingUpTo(_)
MatchingUpTo(n) ==
    IF n = 0 THEN << >>
    ELSE IF n \in Matching THEN Append(MatchingUpTo(n - 1), call.metrics[n])
    ELSE MatchingUpTo(n - 1)
FirstFailing == CHOOSE i \in Failing : \A j \in Failing : i <= j

\* C1: run re-measures if and only if force is set, or the identifier has no
\* record in the store, or the identifier ends with the dirty marker; then it
\* executes the matching metrics in order (all of them, or up to the first one
\* that raises), and otherwise it executes none.  A call that git describe
\* aborts has decided to re-measure and executed nothing.
C1_RunIffRequired ==
    (IsRun /\ Resolved) =>
        LET required == call.force \/ ~HadRecord \/ Dirty(call.code_id)
        IN  /\ call.run <=> required
            /\ ~required => call.measured = << >>
            /\ (required /\ ~DescribeFailed) =>
                  call.measured = MatchingUpTo(IF Failing = {} THEN Len(call.metrics)
                                               ELSE FirstFailing)

\* C1 witness: a dirty identifier that already has a record is run again,
\* unforced, and its matching metrics are executed
C1_Witness ==
    /\ IsRun /\ Resolved /\ Dirty(call.code_id) /\ HadRecord /\ ~call.force
    /\ call.exc = "none" /\ Len(call.measured) = 2

\* C2: after a run that re-measured, the record under the identifier holds
\* the name entry and one entry per matching metric of the supplied list, with
\* the outcome that metric returned in this call, and nothing else
C2_RecordReplaced ==
    (IsRun /\ call.run /\ call.exc = "none") =>
        /\ call.code_id \in DOMAIN results
        /\ LET rec == results[call.code_id]
           IN  /\ DOMAIN rec = {"name"} \cup {call.metrics[i] : i \in Matching}
               /\ rec["name"].tag = "str"
               /\ \A i \in Matching : rec[call.metrics[i]] = call.outs[i]

\* C2 witness: a re-measurement under an identifier whose previous record
\* held a metric that the new run does not measure
C2_Witness ==
    /\ IsRun /\ call.run /\ call.exc = "none" /\ HadRecord
    /\ {"m1", "m2"} \subseteq DOMAIN call.before[call.code_id]
    /\ "m2" \notin DOMAIN results[call.code_id]
    /\ "m1" \in DOMAIN results[call.code_id]
    /\ results[call.code_id]["m1"] # call.before[call.code_id]["m1"]

\* C3: a run on a clean identifier that has a record, with force false,
\* executes no metric, raises nothing and leaves the store as it was
C3_CleanRunIdempotent ==
    (IsRun /\ Resolved /\ ~Dirty(call.code_id) /\ HadRecord /\ ~call.force) =>
        /\ call.measured = << >>
        /\ call.exc = "none"
        /\ results = call.before

\* C3 witness: a second run on a clean cached identifier, with metrics to run
C3_Witness ==
    /\ IsRun /\ Resolved /\ ~Dirty(call.code_id) /\ HadRecord /\ ~call.force
    /\ call.metrics # << >> /\ call.single_id = None /\ nops = 2

\* C4: when a metric raises during a run the failure leaves run and the
\* store is what it was before the call
C4_FailureWritesNothing ==
    (IsRun /\ call.run /\ ~DescribeFailed /\ Failing # {}) =>
        /\ call.exc = "MetricError"
        /\ results = call.before

\* C4 witness: the second metric raises after the first one was measured
C4_Witness ==
    /\ IsRun /\ call.exc = "MetricError" /\ Len(call.measured) = 2
    /\ call.outs[1] # Raises

\* C6: with the identifier degraded to 'unknown', a run that has to measure
\* and whose metrics do not raise returns normally and leaves a record under
\* the key 'unknown'
C6_UnknownStillMeasured ==
    (IsRun /\ call.code_id = <<"unknown">> /\ call.run /\ Failing = {}) =>
        /\ call.exc = "none"
        /\ <<"unknown">> \in DOMAIN results

----------------------------------------------------------------------------
(* Properties of main, checked under SpecMain *)

IsMain == call.op = "main"
\* single_id is set and is the id of none of the supplied metrics
UnknownSingleId ==
    call.single_id # None /\
    call.single_id \notin {call.metrics[i] : i \in DOMAIN call.metrics}

----------------------------------------------------------------------------
(* Properties of working_tree_id, checked under SpecIdentity *)

\* C7: working_tree_id returns the HEAD hash when no tracked file is
\* modified (untracked files do not count), the hash with the dirty marker
\* when one is, and 'unknown' on every failure to invoke git, never raising
C7_IdentifierOrUnknown ==
    call.op = "working_tree_id" =>
        /\ call.exc = "none"
        /\ call.code_id = IF ~InCheckout(git) THEN <<"unknown">>
                          ELSE IF git.modified THEN <<git.head, "-dirty">>
                          ELSE <<git.head>>

----------------------------------------------------------------------------
(* Properties of Results.compare, checked under SpecCompare *)

IsCompare == call.op = "compare"
\* compare found the records of both identifiers
BothFound ==
    /\ call.start_sha # NoId /\ call.end_sha # NoId
    /\ {call.start_sha, call.end_sha} \subseteq DOMAIN call.before
StartRecord == call.before[call.start_sha]
EndRecord == call.before[call.end_sha]
\* an outcome reduced by its shape: a list to its minimum, a scalar to itself
Reduced(x) ==
    IF x.tag = "list"
    THEN CHOOSE m \in {x.v[i] : i \in DOMAIN x.v} : \A i \in DOMAIN x.v : m <= x.v[i]
    ELSE x.v[1]
\* p is 100 * v2 / v1 rounded to a nearest integer
NearestPercent(p, v1, v2) ==
    LET d == 100 * v2 - p * v1 IN 2 * d <= v1 /\ -2 * d <= v1
ReportedKeys == {call.out[i].key : i \in DOMAIN call.out}

\* C8: for every reported metric whose start and end outcomes have the same
\* shape and are equal once lists are reduced to their minimum, two
\* different lists with the same minimum included, the report says
\* "no change"
C8_NoChangeAfterMin ==
    IsCompare =>
        \A i \in DOMAIN call.out :
            LET a == StartRecord[call.out[i].key]
                b == EndRecord[call.out[i].key]
            IN  (a.tag = b.tag /\ Reduced(a) = Reduced(b)) =>
                    call.out[i].kind = "nochange"

\* C9: for every reported metric whose reduced start and end values differ
\* and whose reduced start value is not zero, the report gives the two
\* reduced values and end / start in percent, rounded to the nearest integer
C9_RatioReported ==
    IsCompare =>
        \A i \in DOMAIN call.out :
            LET a == StartRecord[call.out[i].key]
                b == EndRecord[call.out[i].key]
            IN  (Reduced(a) # Reduced(b) /\ Reduced(a) # 0) =>
                    /\ call.out[i].kind = "ratio"
                    /\ call.out[i].v1 = Reduced(a)
                    /\ call.out[i].v2 = Reduced(b)
                    /\ NearestPercent(call.out[i].pct, Reduced(a), Reduced(b))

\* the part of C9 that the code satisfies: the same, for outcomes of the same
\* shape on both sides
C9_RatioReportedSameShape ==
    IsCompare =>
        \A i \in DOMAIN call.out :
            LET a == StartRecord[call.out[i].key]
                b == EndRecord[call.out[i].key]
            IN  (a.tag = b.tag /\ Reduced(a) # Reduced(b) /\ Reduced(a) # 0) =>
                    /\ call.out[i].kind = "ratio"
                    /\ call.out[i].v1 = Reduced(a)
                    /\ call.out[i].v2 = Reduced(b)
                    /\ NearestPercent(call.out[i].pct, Reduced(a), Reduced(b))

\* the examples of C9: 10 -> 15 is 150%, [10, 20, 5] -> [8, 9] is 5 -> 8 and
\* 160%, [0.5, 0.4, 0.6] -> [0.3, 0.35] is 75%
C9_Examples ==
    IsCompare =>
        \A i \in DOMAIN call.out :
            LET a == StartRecord[call.out[i].key]
                b == EndRecord[call.out[i].key]
                l == call.out[i]
            IN  /\ (a = Num(10) /\ b = Num(15)) => (l.kind = "ratio" /\ l.pct = 150)
                /\ (a = List(<<10, 20, 5>>) /\ b = List(<<8, 9>>)) =>
                       (l.kind = "ratio" /\ l.v1 = 5 /\ l.v2 = 8 /\ l.pct = 160)
                /\ (a = List(<<50, 40, 60>>) /\ b = List(<<30, 35>>)) =>
                       (l.kind = "ratio" /\ l.v1 = 40 /\ l.v2 = 30 /\ l.pct = 75)

\* C10: the identifiers compare reports are identifiers of both records,
\* never the name key and never one the filter excludes; when compare returns
\* they are all of those, each reported once; an identifier that only one
\* record holds is not reported and makes no lookup fail
C10_SharedKeysReported ==
    (IsCompare /\ BothFound) =>
        LET expected == {k \in DOMAIN StartRecord \cap DOMAIN EndRecord :
                            k # "name" /\ (call.single_id = None \/ k = call.single_id)}
        IN  /\ ReportedKeys \subseteq expected
            /\ call.exc # "KeyError"
            /\ call.exc = "none" =>
                  (ReportedKeys = expected /\ Len(call.out) = Cardinality(expected))

\* C10 witness: compare returns a report of the shared metric of two records
\* of which one holds a metric that the other lacks
C10_Witness ==
    /\ IsCompare /\ BothFound /\ call.exc = "none" /\ call.single_id = None
    /\ "m2" \in DOMAIN StartRecord /\ "m2" \notin DOMAIN EndRecord
    /\ ReportedKeys = {"m1"}

\* C11: for every metric compare reaches whose reduced start value is zero
\* and whose reduced end value is not, compare raises ZeroDivisionError at
\* that metric and reports no ratio for it
C11_ZeroStartFails ==
    IsCompare =>
        \A i \in DOMAIN call.out :
            LET a == StartRecord[call.out[i].key]
                b == EndRecord[call.out[i].key]
            IN  (Reduced(a) = 0 /\ Reduced(b) # 0) =>
                    /\ call.exc = "ZeroDivisionError"
                    /\ i = Len(call.out)
                    /\ call.out[i].kind = "key"

\* the part of C11 that the code satisfies: the same, for outcomes of the
\* same shape on both sides
C11_ZeroStartFailsSameShape ==
    IsCompare =>
        \A i \in DOMAIN call.out :
            LET a == StartRecord[call.out[i].key]
                b == EndRecord[call.out[i].key]
            IN  (a.tag = b.tag /\ Reduced(a) = 0 /\ Reduced(b) # 0) =>
                    /\ call.exc = "ZeroDivisionError"
                    /\ i = Len(call.out)
                    /\ call.out[i].kind = "key"

----------------------------------------------------------------------------
(* Properties of the read-only operations, checked under SpecCompare *)

IsSummary == call.op = "summary"

\* C12: summary raises KeyError when the identifier of the working tree has
\* no record, compare raises KeyError when the start or the end identifier
\* has none, both before anything is reported; and whether they return or
\* raise, neither executes a metric nor changes the store in memory
C12_ReadOnlyLookups ==
    /\ (IsSummary /\ call.code_id # NoId /\ call.code_id \notin DOMAIN call.before) =>
          (call.exc = "KeyError" /\ call.out = << >>)
    /\ (IsCompare /\ call.start_sha # NoId /\ call.end_sha # NoId /\ ~BothFound) =>
          (call.exc = "KeyError" /\ call.out = << >>)
    /\ (IsSummary \/ IsCompare) =>
          (results = call.before /\ call.measured = << >> /\ ~call.run)

\* C12 witness: compare finds the record of the start commit and none of
\* the dirty working tree
C12_Witness ==
    /\ IsCompare /\ call.exc = "KeyError"
    /\ call.start_sha \in DOMAIN call.before
    /\ Dirty(call.end_sha) /\ call.end_sha \notin DOMAIN call.before
    /\ results = call.before

\* the record summary printed from
SummaryRecord == call.before[call.code_id]
\* the metric entries of that record that match single_id
SummaryExpected ==
    {k \in DOMAIN SummaryRecord :
        k # "name" /\ (call.single_id = None \/ k = call.single_id)}

\* C13: a summary that returns reports exactly the entries of the record of
\* the working tree other than name that match single_id, each once and with
\* its value, a list reduced to its minimum; the name entry is not reported
C13_SummaryReports ==
    (IsSummary /\ call.exc = "none") =>
        /\ ReportedKeys = SummaryExpected
        /\ Len(call.out) = Cardinality(SummaryExpected)
        /\ \A i \in DOMAIN call.out :
              /\ call.out[i].kind = "value"
              /\ call.out[i].v1 = Reduced(SummaryRecord[call.out[i].key])

\* the part of C13 that the code satisfies: the metric entries that match
\* single_id are reported, each once and with its reduced value, and nothing
\* else but the name entry is
C13_SummaryReportsMetrics ==
    (IsSummary /\ call.exc = "none") =>
        /\ ReportedKeys \ {"name"} = SummaryExpected
        /\ Len(call.out) = Cardinality(ReportedKeys)
        /\ \A i \in DOMAIN call.out :
              call.out[i].key # "name" =>
                 /\ call.out[i].kind = "value"
                 /\ call.out[i].v1 = Reduced(SummaryRecord[call.out[i].key])

----------------------------------------------------------------------------
(* Properties of Results.save and Results.load, checked under SpecStore *)

IsSave == call.op = "save"
IsLoad == call.op = "load"
\* Python's == on two stores: the same identifiers, with records of the same
\* keys and equal values
StoreEq(S, T) ==
    /\ DOMAIN S = DOMAIN T
    /\ \A id \in DOMAIN S :
          /\ DOMAIN S[id] = DOMAIN T[id]
          /\ \A k \in DOMAIN S[id] : PyEq(S[id][k], T[id][k])

C15_LoadWithoutFile ==
    (IsLoad /\ ~call.disk_before.exists) =>
        /\ call.exc = "none" /\ call.loaded
        /\ call.type = "dict"
        /\ results = EmptyStore

\* C15 witness: a process that holds records loads when there is no file
C15_Witness ==
    /\ IsLoad /\ ~call.disk_before.exists
    /\ call.before # EmptyStore /\ results = EmptyStore

\* C16: a load of a file that holds text that is not JSON, or a JSON value
\* that is not an object, raises ValueError and yields no store
C16_CorruptFileRejected ==
    (IsLoad /\ call.disk_before.exists /\ call.disk_before.json # "object") =>
        /\ call.exc = "ValueError"
        /\ ~call.loaded

\* the part of C16 that the code satisfies: the same, for text that is not
\* JSON
C16_InvalidJsonRejected ==
    (IsLoad /\ call.disk_before.exists /\ call.disk_before.json = "invalid") =>
        /\ call.exc = "ValueError"
        /\ ~call.loaded
        /\ results = call.before

----------------------------------------------------------------------------
(* Properties of persistence in main, checked under SpecMain *)

\* C17: Results.run leaves the file as it was; so does a main in which a
\* metric raised, or whose single_id is unknown, or that was given a
\* target_commit; and a main that changed the file was given no
\* target_commit, loaded the store and left in the file the dump of the store
\* that its run returned
C17_PersistOnlyAfterRun ==
    /\ IsRun => disk = call.disk_before
    /\ (IsMain /\ (call.exc = "MetricError" \/ UnknownSingleId \/ call.end # None)) =>
          disk = call.disk_before
    /\ (IsMain /\ disk # call.disk_before) =>
          (call.end = None /\ call.loaded /\ disk = save(results))

\* C17 witness: a main on a file that an earlier main wrote, in which the
\* second metric raises after the first was measured
C17_Witness ==
    /\ IsMain /\ call.exc = "MetricError" /\ Len(call.measured) = 2
    /\ call.disk_before.exists /\ call.disk_before.doc # EmptyStore
    /\ disk = call.disk_before

\* the metric lines of a report, as pairs of key and value
ReportedValues ==
    {<<call.out[i].key, call.out[i].v1>> :
        i \in {j \in DOMAIN call.out : call.out[j].key # "name"}}
\* the metric entries of a record that match single_id, reduced
RecordValues(rec) ==
    {<<k, Reduced(rec[k])>> :
        k \in {x \in DOMAIN rec : x # "name" /\
                                  (call.single_id = None \/ x = call.single_id)}}

\* C18: a main with ref_commit None and a target_commit, in a checkout,
\* outputs the metric entries recorded for target_commit, and raises KeyError
\* when the store has no record of it
C18_SummaryOfTarget ==
    (IsMain /\ call.loaded /\ call.start = None /\ call.end # None /\ InCheckout(git)) =>
        IF <<call.end>> \in DOMAIN results
        THEN call.exc = "none" /\ ReportedValues = RecordValues(results[<<call.end>>])
        ELSE call.exc = "KeyError" /\ call.out = << >>

----------------------------------------------------------------------------
(* The frame of Results.run, checked under Spec *)

\* C19: after a run every identifier the store held is still in it, with
\* the record it had unless it is the identifier the run resolved, and the
\* store holds no identifier besides those and the one resolved
C19_OtherRecordsKept ==
    IsRun =>
        /\ \A id \in DOMAIN call.before :
              /\ id \in DOMAIN results
              /\ id # call.code_id => results[id] = call.before[id]
        /\ DOMAIN results \subseteq DOMAIN call.before \cup {call.code_id}

\* C19 witness: a run in a repository state other than the one an earlier
\* run recorded adds its record next to the earlier one
C19_Witness ==
    /\ IsRun /\ call.run /\ call.exc = "none"
    /\ call.before # EmptyStore
    /\ call.code_id \notin DOMAIN call.before
    /\ DOMAIN results = DOMAIN call.before \cup {call.code_id}
    /\ "m1" \in DOMAIN results[call.code_id]

----------------------------------------------------------------------------
(* The shapes of the two sides in Results.compare, checked under           *)
(* SpecCompare                                                             *)

\* C20: for every metric compare reaches whose start outcome is a list and
\* whose end outcome is a scalar, or the reverse, compare raises no
\* TypeError at it and reports "no change" when the reduced values are equal
\* and otherwise, the reduced start value not being zero, the two reduced
\* values with their ratio
C20_MixedShapesCompared ==
    IsCompare =>
        \A i \in DOMAIN call.out :
            LET a == StartRecord[call.out[i].key]
                b == EndRecord[call.out[i].key]
                l == call.out[i]
            IN  (a.tag # b.tag) =>
                    /\ ~(call.exc = "TypeError" /\ i = Len(call.out))
                    /\ Reduced(a) = Reduced(b) => l.kind = "nochange"
                    /\ (Reduced(a) # Reduced(b) /\ Reduced(a) # 0) =>
                          /\ l.kind = "ratio"
                          /\ l.v1 = Reduced(a) /\ l.v2 = Reduced(b)
                          /\ NearestPercent(l.pct, Reduced(a), Reduced(b))

\* what the code does instead: every metric compare reaches whose two
\* outcomes differ in shape makes it raise TypeError with nothing reported
\* for the metric
C20_MixedShapesRaise ==
    IsCompare =>
        \A i \in DOMAIN call.out :
            LET a == StartRecord[call.out[i].key]
                b == EndRecord[call.out[i].key]
            IN  (a.tag # b.tag) =>
                    /\ call.exc = "TypeError" /\ i = Len(call.out)
                    /\ call.out[i].kind = "key"

----------------------------------------------------------------------------
(* Properties of Vis.method, checked under SpecVis *)

\* the registered names assigned so far, in order
ValidAssigned == SelectSeq(vis.assigned, LAMBDA n : n \in Registered)
\* the registered name assigned last, the constructor's name if there is none
LastValid ==
    IF ValidAssigned = << >> THEN vis.constructed
    ELSE ValidAssigned[Len(ValidAssigned)]

\* C21: a read of method returns the state registered under the registered
\* name that was assigned last, or under the constructor's name when none
\* was assigned; an assignment of a name that is not registered raises
\* AttributeError and leaves _method as it was
C21_MethodIsLastAssigned ==
    /\ (call.op = "method_get" /\ LastValid \in Registered) =>
          (call.exc = "none" /\ call.got = State(LastValid))
    /\ (call.op = "method_set" /\ call.value \notin Registered) =>
          (call.exc = "AttributeError" /\ vis._method = call.method_before)

\* the part of C21 that the code satisfies: a read before any registered
\* name was assigned returns the state of the constructor's name, and an
\* unregistered name is refused with _method left as it was
C21_ConstructedOrRefused ==
    /\ (call.op = "method_get" /\ ValidAssigned = << >> /\ vis.constructed \in Registered) =>
          (call.exc = "none" /\ call.got = State(vis.constructed))
    /\ (call.op = "method_set" /\ call.value \notin Registered) =>
          (call.exc = "AttributeError" /\ vis._method = call.method_before)

\* what the code does instead: once a registered name was assigned, _method
\* holds the state object and every read raises KeyError
C21_ReadAfterAssignRaises ==
    (call.op = "method_get" /\ ValidAssigned # << >>) =>
        (call.exc = "KeyError" /\ vis._method = State(LastValid))

====
